---- MODULE Spec2Model ----
(***************************************************************************)
(* Model of autodocs: the symbol extraction of PythonParser                *)
(* (src/src/autodocs/parsers.py) and the language-tagged entry points of   *)
(* src/src/autodocs/tools.py.                                              *)
(*                                                                         *)
(* A source text is represented by the concrete syntax tree the python     *)
(* grammar gives it: a module is a sequence of statements, a statement is  *)
(* a record with the node's type, its fields and its text.  Texts the code *)
(* inspects (names, string literals) are sequences of characters; texts    *)
(* the code only copies are strings.  An optional value is <<>> (None) or  *)
(* <<v>>.                                                                  *)
(***************************************************************************)
EXTENDS Integers, Sequences, FiniteSets, TLC

\* ------------------------------------------------------------------ bounds

\* Longest content of a docstring literal, in characters.
MaxContent == 2
\* Most statements of a module built from the core statements.
MaxStmts == 2
\* Most statements of a generated function or class body.
MaxBody == 2
\* Most decorators above a generated definition.
MaxDecorators == 2

\* ------------------------------------------------------------------- texts

None == <<>>
Some(v) == <<v>>

DQ == "\""
SQ == "'"

RECURSIVE LStrip(_, _)
\* str.lstrip(chars): drop the leading characters that are in chars.
LStrip(s, chars) ==
    IF s # <<>> /\ Head(s) \in chars THEN LStrip(Tail(s), chars) ELSE s

RECURSIVE RStrip(_, _)
\* str.rstrip(chars): drop the trailing characters that are in chars.
RStrip(s, chars) ==
    IF s # <<>> /\ s[Len(s)] \in chars
    THEN RStrip(SubSeq(s, 1, Len(s) - 1), chars)
    ELSE s

\* str.strip(chars): chars is a set of characters, not a prefix or suffix.
Strip(s, chars) == RStrip(LStrip(s, chars), chars)

\* text.strip('"""').strip("'''") of parsers.py: every leading and trailing
\* double quote is removed, then every leading and trailing single quote.
DocstringText(text) == Strip(Strip(text, {DQ}), {SQ})

\* name.startswith('_')
StartsWithUnderscore(name) == Len(name) > 0 /\ name[1] = "_"

\* ------------------------------------------------------- the syntax tree

\* tree_sitter.Node of the python grammar: type, fields, text.  A token the
\* code never looks into is written as one element of its text.
Identifier(name) == [type |-> "identifier", text |-> name]

\* (string): text is the literal as written, delimiters included.
StringNode(delim, content) ==
    [type |-> "string", text |-> delim \o content \o delim,
     delim |-> delim, content |-> content]

\* (expression_statement (string))
StringStmt(lit) == [type |-> "expression_statement", expr |-> lit]

\* (expression_statement (assignment left: type: right:)); type and right
\* are optional fields of the grammar.
AssignStmt(left, annotation, right) ==
    [type |-> "expression_statement",
     expr |-> [type |-> "assignment", left |-> left,
               annotation |-> annotation, right |-> right]]

PassStmt == [type |-> "pass_statement"]

Block(stmts) == [type |-> "block", children |-> stmts]

Token(t) == [type |-> t, named |-> FALSE, text |-> <<t>>]
Param(text) == [type |-> "identifier", named |-> TRUE, text |-> text]

RECURSIVE CommaSep(_)
CommaSep(ps) ==
    IF Len(ps) <= 1 THEN ps
    ELSE <<Head(ps), Token(",")>> \o CommaSep(Tail(ps))

\* (parameters "(" p "," p ")"): the children include the punctuation.
Parameters(ps) ==
    [type |-> "parameters",
     children |-> <<Token("(")>> \o CommaSep(ps) \o <<Token(")")>>]

\* (argument_list "(" e "," e ")")
ArgumentList(es) ==
    [type |-> "argument_list",
     children |-> <<Token("(")>> \o CommaSep(es) \o <<Token(")")>>]

FunctionDefinition(name, params, ret, body) ==
    [type |-> "function_definition", name |-> Identifier(name),
     parameters |-> Parameters(params), return_type |-> ret,
     body |-> Block(body)]

ClassDefinition(name, bases, body) ==
    [type |-> "class_definition", name |-> Identifier(name),
     superclasses |-> bases, body |-> Block(body)]

\* (decorator "@" expression)
Decorator(exprType, text) ==
    [type |-> "decorator", expr |-> [type |-> exprType, text |-> text]]

DecoratedDefinition(decorators, definition) ==
    [type |-> "decorated_definition", decorators |-> decorators,
     definition |-> definition]

\* (if_statement consequence: (block))
IfStatement(body) == [type |-> "if_statement", consequence |-> Block(body)]

Module(stmts) == [type |-> "module", children |-> stmts]

\* The block a statement holds, <<>> when it holds none.
InnerBlock(stmt) ==
    CASE stmt.type = "function_definition" -> stmt.body.children
      [] stmt.type = "class_definition" -> stmt.body.children
      [] stmt.type = "decorated_definition" -> stmt.definition.body.children
      [] stmt.type = "if_statement" -> stmt.consequence.children
      [] OTHER -> <<>>

RECURSIVE Preorder(_, _)
\* The statements below a block in document order, each with the path of the
\* block that holds it (<<>> for the block itself), its index in that block
\* and whether it is the block's last child.
Preorder(stmts, path) ==
    LET RECURSIVE From(_)
        From(i) ==
            IF i > Len(stmts) THEN <<>>
            ELSE <<[node |-> stmts[i], block |-> path, index |-> i,
                    last |-> (i = Len(stmts))]>>
                 \o Preorder(InnerBlock(stmts[i]), path \o <<i>>)
                 \o From(i + 1)
    IN From(1)

\* ---------------------------------------------------------------- helpers

RECURSIVE Concat(_)
\* The concatenation of a sequence of sequences.
Concat(ss) == IF ss = <<>> THEN <<>> ELSE Head(ss) \o Concat(Tail(ss))

SeqMap(F(_), s) == [i \in 1..Len(s) |-> F(s[i])]

Range(s) == {s[i] : i \in 1..Len(s)}

\* ----------------------------------------------- PythonParser: the queries

\* (expression_statement (string) @docstring)
IsStringStmt(stmt) ==
    stmt.type = "expression_statement" /\ stmt.expr.type = "string"

\* (expression_statement (assignment left: (_) type: (type)? right: (_)))
IsAssignStmt(stmt) ==
    /\ stmt.type = "expression_statement"
    /\ stmt.expr.type = "assignment"
    /\ stmt.expr.right # None

\* get_module_docstring's QUERY: a string statement that is a child of the
\* module, at any position (the pattern holds no anchor).
ModuleDocstringMatches(root) == SelectSeq(root.children, IsStringStmt)

\* get_constants' QUERY: a child of the module that is an assignment with an
\* identifier on the left and a right-hand side.
IsConstantStmt(stmt) == IsAssignStmt(stmt) /\ stmt.expr.left.type = "identifier"

\* A faulty variant of ConstantMatches: the pattern is searched in every block.
ConstantMatches_AnyDepth(root) ==
    LET Captures(stmt) ==
            [name |-> stmt.expr.left, type |-> stmt.expr.annotation,
             value |-> stmt.expr.right[1]]
    IN  SeqMap(Captures,
               SelectSeq(SeqMap(LAMBDA e : e.node, Preorder(root.children, <<>>)),
                         IsConstantStmt))

ConstantMatches(root) ==
    LET Captures(stmt) ==
            [name |-> stmt.expr.left, type |-> stmt.expr.annotation,
             value |-> stmt.expr.right[1]]
    IN  SeqMap(Captures, SelectSeq(root.children, IsConstantStmt))

\* body: (block (expression_statement (string) @docstring)?): the optional
\* child pattern is not anchored, so it binds any string statement of the
\* body; it stays unbound only when the body holds no string statement.
DocstringCaptures(body) ==
    LET found == SelectSeq(body.children, IsStringStmt)
    IN  IF found = <<>> THEN <<None>>
        ELSE SeqMap(LAMBDA stmt : Some(stmt.expr), found)

\* (decorator (identifier) @decorator)*: the decorators whose expression is
\* a plain identifier.
IdentifierDecorators(decorators) ==
    SeqMap(LAMBDA d : d.expr,
           SelectSeq(decorators, LAMBDA d : d.expr.type = "identifier"))

\* The matches of get_functions' QUERY that one child of the module gives.
\* First alternative: (module (function_definition ...)); second:
\* (module (decorated_definition (decorator ...)* definition: ...)).
FunctionMatchesOf(stmt) ==
    LET Captures(def, decorator) ==
            SeqMap(LAMBDA doc :
                       [name |-> def.name, parameters |-> def.parameters,
                        return_type |-> def.return_type, docstring |-> doc,
                        decorator |-> decorator],
                   DocstringCaptures(def.body))
    IN  CASE stmt.type = "function_definition" -> Captures(stmt, <<>>)
          [] stmt.type = "decorated_definition"
             /\ stmt.definition.type = "function_definition" ->
                Captures(stmt.definition, IdentifierDecorators(stmt.decorators))
          [] OTHER -> <<>>

\* func_query_cursor.matches(root_node): the matches of both alternatives
\* as one sequence, in document order.
FunctionMatches(root) == Concat(SeqMap(FunctionMatchesOf, root.children))

\* ---------------------------------------- PythonParser: the extractions

\* get_module_docstring, for a parsed instance: the first match, stripped.
ModuleDocstringOf(root) ==
    LET matches == ModuleDocstringMatches(root)
    IN  IF matches = <<>> THEN None
        ELSE Some(DocstringText(matches[1].expr.text))

\* A faulty variant of ConstantsOf: the annotation is dropped.
ConstantsOf_Untyped(root) ==
    SeqMap(LAMBDA m : [name |-> m.name.text, type |-> None,
                       value |-> m.value.text],
           ConstantMatches(root))

\* get_constants, for a parsed instance.
ConstantsOf(root) ==
    SeqMap(LAMBDA m : [name |-> m.name.text, type |-> m.type,
                       value |-> m.value.text],
           ConstantMatches(root))

\* A faulty variant of ParameterTexts: only the plain names are kept.
ParameterTexts_NamesOnly(parameters) ==
    SeqMap(LAMBDA c : c.text,
           SelectSeq(parameters.children, LAMBDA c : c.type = "identifier"))

\* The list comprehension of get_functions over the children of the
\* parameters node, the punctuation tokens left out.
ParameterTexts(parameters) ==
    SeqMap(LAMBDA c : c.text,
           SelectSeq(parameters.children,
                     LAMBDA c : c.type # "," /\ c.type # "(" /\ c.type # ")"))

\* The record get_functions appends for one match.
FunctionRecord(m) ==
    [name |-> m.name.text,
     parameters |-> ParameterTexts(m.parameters),
     return_type |-> m.return_type,
     docstring |-> IF m.docstring # None
                   THEN Some(DocstringText(m.docstring[1].text)) ELSE None,
     decorators |-> IF m.decorator # <<>>
                    THEN Some(SeqMap(LAMBDA d : d.text, m.decorator))
                    ELSE None]

\* A faulty variant of FunctionsOf: the matches of the first alternative, then those
\* of the second.
FunctionsOf_Grouped(root) ==
    LET all == FunctionMatches(root)
    IN  SeqMap(FunctionRecord,
               SelectSeq(all, LAMBDA m : m.decorator = <<>>)
               \o SelectSeq(all, LAMBDA m : m.decorator # <<>>))

\* get_functions, for a parsed instance.
FunctionsOf(root) == SeqMap(FunctionRecord, FunctionMatches(root))

\* The docstring of a class or method body: body.named_child(0) is an
\* expression_statement whose named_child(0) is a string.
FirstStatementDocstring(body) ==
    IF body.children # <<>> /\ IsStringStmt(body.children[1])
    THEN Some(DocstringText(body.children[1].expr.text))
    ELSE None

\* CLASS_QUERY: both alternatives are searched in the whole tree.  A
\* decorated class matches the second alternative at the
\* decorated_definition and the first at the class_definition below it.
ClassMatchesOf(entry) ==
    LET Captures(def) ==
            [name |-> def.name, bases |-> def.superclasses, body |-> def.body]
    IN  CASE entry.node.type = "class_definition" -> <<Captures(entry.node)>>
          [] entry.node.type = "decorated_definition"
             /\ entry.node.definition.type = "class_definition" ->
                <<Captures(entry.node.definition),
                  Captures(entry.node.definition)>>
          [] OTHER -> <<>>

ClassMatches(root) ==
    Concat(SeqMap(ClassMatchesOf, Preorder(root.children, <<>>)))

\* FIELD_QUERY run on the class body: in any block at or below the body, an
\* assignment statement that is the last child of its block (the anchor).
\* field.name is the left node; its parent is the assignment and the parent
\* of that is the expression_statement, named here by its path from the body.
FieldMatches(body) ==
    SeqMap(LAMBDA e : [name |-> e.node.expr.left,
                       type |-> e.node.expr.annotation,
                       value |-> e.node.expr.right[1],
                       name_grandparent |->
                           [type |-> "expression_statement",
                            path |-> e.block \o <<e.index>>]],
           SelectSeq(Preorder(body.children, <<>>),
                     LAMBDA e : IsAssignStmt(e.node) /\ e.last))

\* field_name_node.parent.parent == body_node
IsClassLevelField(m) == m.name_grandparent = [type |-> "block", path |-> <<>>]

FieldsOf(body) ==
    SeqMap(LAMBDA m : [name |-> m.name.text, value |-> m.value.text,
                       type |-> m.type],
           SelectSeq(FieldMatches(body), IsClassLevelField))

\* METHOD_QUERY run on the class body: a function definition, plain or
\* decorated, that is a child of any block at or below the body.
MethodMatchesOf(entry) ==
    LET Captures(def, decorator) ==
            [name |-> def.name, params |-> def.parameters,
             return_type |-> def.return_type, body |-> def.body,
             decorator |-> decorator]
    IN  CASE entry.node.type = "function_definition" ->
                <<Captures(entry.node, <<>>)>>
          [] entry.node.type = "decorated_definition"
             /\ entry.node.definition.type = "function_definition" ->
                <<Captures(entry.node.definition,
                           SeqMap(LAMBDA d : d.expr, entry.node.decorators))>>
          [] OTHER -> <<>>

MethodMatches(body) ==
    Concat(SeqMap(MethodMatchesOf, Preorder(body.children, <<>>)))

\* method_info of get_classes.
MethodRecord(m) ==
    [name |-> m.name.text,
     parameters |-> SeqMap(LAMBDA c : c.text,
                           SelectSeq(m.params.children, LAMBDA c : c.named)),
     return_type |-> m.return_type,
     decorators |-> IF m.decorator # <<>>
                    THEN Some(SeqMap(LAMBDA d : d.text, m.decorator))
                    ELSE None,
     docstring |-> FirstStatementDocstring(m.body)]

MethodsOf(body) == SeqMap(MethodRecord, MethodMatches(body))

\* bases: the texts of bases_node.named_children, [] without superclasses.
BasesOf(bases) ==
    IF bases = None THEN <<>>
    ELSE SeqMap(LAMBDA c : c.text,
                SelectSeq(bases[1].children, LAMBDA c : c.named))

\* The record get_classes appends for one match.
ClassRecord(m) ==
    [name |-> m.name.text, bases |-> BasesOf(m.bases),
     docstring |-> FirstStatementDocstring(m.body),
     methods |-> MethodsOf(m.body), fields |-> FieldsOf(m.body)]

\* get_classes, for a parsed instance.
ClassesOf(root) == SeqMap(ClassRecord, ClassMatches(root))

\* ------------------------------------------------------- the source texts

SeqsUpTo(S, lo, hi) == UNION {[1..n -> S] : n \in lo..hi}

TripleDQ == <<DQ, DQ, DQ>>
TripleSQ == <<SQ, SQ, SQ>>
Delimiters == {TripleDQ, TripleSQ, <<DQ>>, <<SQ>>}
Alphabet == {DQ, SQ, "A"}

\* The contents python accepts between the delimiters without an escape: a
\* one-quote literal holds no quote of its kind; a triple-quoted one holds no
\* run of three and does not end with its quote.
ValidLiteral(delim, content) ==
    LET q == delim[1]
    IN  IF Len(delim) = 1
        THEN \A i \in 1..Len(content) : content[i] # q
        ELSE /\ content = <<>> \/ content[Len(content)] # q
             /\ \A i \in 1..(Len(content) - 2) :
                    ~(content[i] = q /\ content[i+1] = q /\ content[i+2] = q)

Literals ==
    {StringNode(d, c) : <<d, c>> \in
        {dc \in Delimiters \X SeqsUpTo(Alphabet, 0, MaxContent) :
            ValidLiteral(dc[1], dc[2])}}

DocA == StringNode(TripleDQ, <<"A">>)
IntegerNode(text) == [type |-> "integer", text |-> text]
AttributeNode(text) == [type |-> "attribute", text |-> text]

\* field = 1, X: int = 5, _h = 1, Y: int (no right-hand side), self.x = 2
FieldAssign == AssignStmt(Identifier(<<"field">>), None, Some(IntegerNode(<<"1">>)))
TypedAssign == AssignStmt(Identifier(<<"X">>), Some(<<"int">>), Some(IntegerNode(<<"5">>)))
PrivateAssign == AssignStmt(Identifier(<<"_", "h">>), None, Some(IntegerNode(<<"1">>)))
BareAnnotation == AssignStmt(Identifier(<<"Y">>), Some(<<"int">>), None)
SelfAssign == AssignStmt(AttributeNode(<<"self.x">>), None, Some(IntegerNode(<<"2">>)))

\* The statements of generated function bodies.
BodyStmts == {PassStmt, StringStmt(DocA), SelfAssign}
Bodies == SeqsUpTo(BodyStmts, 1, MaxBody)

DecoratorForms ==
    {Decorator("identifier", <<"staticmethod">>), Decorator("call", <<"wraps(f)">>)}
DecoratorLists == SeqsUpTo(DecoratorForms, 1, MaxDecorators)

\* A parameter that is more than a name: (typed_parameter), (default_parameter)
ParamNode(type, text) == [type |-> type, named |-> TRUE, text |-> text]

\* (x: int, y=1)
ParamsTyped ==
    <<ParamNode("typed_parameter", <<"x: int">>),
      ParamNode("default_parameter", <<"y=1">>)>>

ParamsXY == <<Param(<<"x">>), Param(<<"y">>)>>
ParamsSelf == <<Param(<<"self">>)>>

\* def f(x, y): <body>, for every generated body
BodyFunctions ==
    {FunctionDefinition(<<"f">>, ParamsXY, None, b) : b \in Bodies}

\* def f(): <literal>, for every literal
LiteralFunctions ==
    {FunctionDefinition(<<"f">>, <<>>, None, <<StringStmt(l)>>) : l \in Literals}

\* @d1 @d2 def g(x, y) -> int: pass, for every decorator list
DecoratedFunctions ==
    {DecoratedDefinition(ds,
        FunctionDefinition(<<"g">>, ParamsXY, Some(<<"int">>), <<PassStmt>>)) :
        ds \in DecoratorLists}

InnerFunction == FunctionDefinition(<<"inner">>, <<>>, None, <<PassStmt>>)
Method == FunctionDefinition(<<"m">>, ParamsSelf, None, <<StringStmt(DocA), SelfAssign>>)
MethodWithInner == FunctionDefinition(<<"n">>, ParamsSelf, None, <<InnerFunction>>)
ClassMethod ==
    DecoratedDefinition(<<Decorator("identifier", <<"classmethod">>)>>,
        FunctionDefinition(<<"c">>, <<Param(<<"cls">>)>>, None, <<PassStmt>>))
NestedClass == ClassDefinition(<<"Nested">>, None, <<Method>>)

\* The statements of generated class bodies.
ClassStmts ==
    {StringStmt(DocA), FieldAssign, Method, MethodWithInner, ClassMethod,
     NestedClass}

\* class A(B): <body>, for every generated class body
BodyClasses ==
    {ClassDefinition(<<"A">>, Some(ArgumentList(<<Param(<<"B">>)>>)), b) :
        b \in SeqsUpTo(ClassStmts, 1, MaxBody)}

DecoratedClass ==
    DecoratedDefinition(<<Decorator("identifier", <<"dataclass">>)>>,
        ClassDefinition(<<"D">>, None, <<StringStmt(DocA), FieldAssign>>))

\* def outer(): class Local: pass
FunctionWithClass ==
    FunctionDefinition(<<"outer">>, <<>>, None,
        <<ClassDefinition(<<"Local">>, None, <<PassStmt>>)>>)

\* The statements that modules of several statements are built from.
CoreStmts ==
    {StringStmt(DocA), TypedAssign, PrivateAssign,
     FunctionDefinition(<<"add">>, ParamsXY, None, <<StringStmt(DocA), PassStmt>>),
     DecoratedDefinition(<<Decorator("identifier", <<"staticmethod">>)>>,
         FunctionDefinition(<<"_", "sub">>, ParamsXY, None, <<PassStmt>>)),
     ClassDefinition(<<"A">>, None, <<FieldAssign, Method>>),
     ClassDefinition(<<"_", "P">>, None, <<PassStmt>>)}

\* The statements that make a module of their own.
RichStmts ==
    BodyFunctions \cup LiteralFunctions \cup DecoratedFunctions
    \cup BodyClasses
    \cup {DecoratedClass, FunctionWithClass, BareAnnotation,
          ClassDefinition(<<"W">>, None,
              <<DecoratedDefinition(<<Decorator("call", <<"wraps(f)">>)>>,
                    FunctionDefinition(<<"g">>, ParamsXY, Some(<<"int">>),
                                       <<PassStmt>>))>>),
          FunctionDefinition(<<"h">>, ParamsTyped, None, <<PassStmt>>),
          IfStatement(<<TypedAssign>>),
          ClassDefinition(<<"E">>, None, <<PassStmt, StringStmt(DocA)>>),
          ClassDefinition(<<"I">>, None, <<IfStatement(<<FieldAssign>>)>>)}

\* A construct the grammar cannot recover, `def f(:`, is an (ERROR) node of
\* the module.
ErrorNode == [type |-> "ERROR", text |-> <<"def f(:">>]

\* s = '\udc80': a str that holds a lone surrogate.
Surrogate == "U+DC80"
SurrogateAssign ==
    AssignStmt(Identifier(<<"s">>), None,
               Some([type |-> "string", text |-> <<SQ, Surrogate, SQ>>]))

\* The texts that are not python, or not text that utf8 encodes.
MalformedSources ==
    {<<ErrorNode>>, <<ErrorNode, TypedAssign>>, <<SurrogateAssign>>}

\* The texts handed to parse, each written as the statements of its module;
\* among them `X: int = 5` followed by `X = 6`, and def add(x, y) given
\* twice, with and without its docstring: a name bound twice.
Sources ==
    SeqsUpTo(CoreStmts, 0, MaxStmts) \cup {<<s>> : s \in RichStmts}
    \cup MalformedSources
    \cup {<<TypedAssign,
             AssignStmt(Identifier(<<"X">>), None, Some(IntegerNode(<<"6">>)))>>,
           <<FunctionDefinition(<<"add">>, ParamsXY, None,
                                <<StringStmt(DocA), PassStmt>>),
             FunctionDefinition(<<"add">>, ParamsXY, None, <<PassStmt>>)>>}

\* ------------------------------------------------ PythonParser: the methods

Return(v) == [tag |-> "ok", value |-> v]
Raise(exception, message) == [tag |-> exception, value |-> <<message>>]
NotParsedError == Raise("ValueError", "No file has been parsed yet.")

\* bytes(code, "utf8") raises UnicodeEncodeError on a lone surrogate.
Encodable(code) ==
    \A i \in 1..Len(code) :
        ~(IsAssignStmt(code[i])
          /\ Surrogate \in Range(code[i].expr.right[1].text))

EncodeError == Raise("UnicodeEncodeError", "surrogates not allowed")

\* self.parser.parse(bytes(code, "utf8")): the tree of the text alone.
BytesParse(code) == Module(code)

\* A faulty variant of parse: a tree already held is kept.
parse_KeepFirst(tree, code) ==
    IF tree = None THEN Some(BytesParse(code)) ELSE tree

\* A faulty variant of parse: the statements of the new text are added to the tree
\* already held.
parse_Merging(tree, code) ==
    IF tree = None THEN Some(BytesParse(code))
    ELSE Some(Module(tree[1].children \o code))

\* parse: the value of self.tree after the call; the assignment is not
\* reached when the text cannot be encoded.
parse(tree, code) == IF Encodable(code) THEN Some(BytesParse(code)) ELSE tree

\* parse: what the call returns or raises.
parse_result(code) == IF Encodable(code) THEN Return(None) ELSE EncodeError

get_tree(tree) ==
    IF tree = None THEN NotParsedError ELSE Return(tree[1])

get_module_docstring(tree) ==
    IF tree = None THEN NotParsedError ELSE Return(ModuleDocstringOf(tree[1]))

\* A faulty variant of get_constants: no check of self.tree.
get_constants_Unguarded(tree) ==
    IF tree = None THEN Return(<<>>) ELSE Return(ConstantsOf(tree[1]))

get_constants(tree) ==
    IF tree = None THEN NotParsedError ELSE Return(ConstantsOf(tree[1]))

get_functions(tree) ==
    IF tree = None THEN NotParsedError ELSE Return(FunctionsOf(tree[1]))

get_classes(tree) ==
    IF tree = None THEN NotParsedError ELSE Return(ClassesOf(tree[1]))

\* getattr(parser, op)(): the extraction op called on an instance holding
\* tree.
Answer(op, held) ==
    CASE op = "get_tree" -> get_tree(held)
      [] op = "get_module_docstring" -> get_module_docstring(held)
      [] op = "get_constants" -> get_constants(held)
      [] op = "get_functions" -> get_functions(held)
      [] op = "get_classes" -> get_classes(held)

\* ------------------------------------------------------ TypescriptParser

\* export const a: number = 1 / export let b / const c = 3, as the
\* statements of a program node.
TsDeclaration(exported, name, annotation, value) ==
    [type |-> IF exported THEN "export_statement" ELSE "lexical_declaration",
     name |-> Identifier(name), annotation |-> annotation, value |-> value]

TsSources ==
    SeqsUpTo({TsDeclaration(TRUE, <<"a">>, Some(<<"number">>), Some(<<"1">>)),
              TsDeclaration(TRUE, <<"b">>, None, None),
              TsDeclaration(FALSE, <<"c">>, None, Some(<<"3">>))},
             0, MaxStmts)

\* typescript_parser.parse / tsx_parser.parse: the tree and its grammar.
TsParse(grammar, text) ==
    [type |-> "program", children |-> text, grammar |-> grammar]

\* The query of TypescriptParser.get_constants: the exported declarations
\* of the program, the type and the value optional.
TsConstantsOf(root) ==
    SeqMap(LAMBDA d : [name |-> d.name.text, type |-> d.annotation,
                       value |-> d.value],
           SelectSeq(root.children, LAMBDA d : d.type = "export_statement"))

TsNotParsedError ==
    Raise("ValueError", "No syntax tree available. Please parse code first.")

\* TypescriptParser.get_constants.  The query is compiled for
\* language_typescript whatever grammar built the tree; on a tree of the tsx
\* grammar the node ids of the two grammars need not agree, so the matches
\* found there are either those of the pattern or none.
ts_get_constants(tree) ==
    IF tree = None THEN {TsNotParsedError}
    ELSE IF tree[1].grammar = "typescript"
         THEN {Return(TsConstantsOf(tree[1]))}
         ELSE {Return(TsConstantsOf(tree[1])), Return(<<>>)}

\* ------------------------------------------------------------- tools.py

\* The language tags the entry points are called with.
Langs == {"python", "typescript", "Python"}

UnsupportedLanguageError == Raise("ValueError", "Unsupported language")

\* What a call did, in order, and what it returned or raised.
Outcome(events, result) == [events |-> events, result |-> result]

\* parser = PythonParser(); with open(path) as file: parser.parse(file.read())
ParsedEvents == <<"PythonParser()", "open", "parse">>

\* [x for x in records if not x['name'].startswith('_')]
PublicOnly(records) ==
    SelectSeq(records, LAMBDA r : ~StartsWithUnderscore(r.name))

\* tools.get_module_docstring
tools_get_module_docstring(text, lang) ==
    IF lang = "python"
    THEN Outcome(ParsedEvents \o <<"get_module_docstring">>,
                 get_module_docstring(parse(None, text)))
    ELSE Outcome(<<>>, UnsupportedLanguageError)

\* A faulty variant of get_module_variables: the private names are removed whatever
\* include_private says.
get_module_variables_AlwaysFiltered(text, lang, include_private) ==
    IF lang = "python"
    THEN Outcome(ParsedEvents \o <<"get_constants">>,
                 Return(PublicOnly(get_constants(parse(None, text)).value)))
    ELSE Outcome(<<>>, UnsupportedLanguageError)

get_module_variables(text, lang, include_private) ==
    IF lang = "python"
    THEN LET constants == get_constants(parse(None, text)).value
         IN  Outcome(ParsedEvents \o <<"get_constants">>,
                     Return(IF ~include_private THEN PublicOnly(constants)
                            ELSE constants))
    ELSE Outcome(<<>>, UnsupportedLanguageError)

get_module_functions(text, lang, include_private) ==
    IF lang = "python"
    THEN LET functions == get_functions(parse(None, text)).value
         IN  Outcome(ParsedEvents \o <<"get_functions">>,
                     Return(IF ~include_private THEN PublicOnly(functions)
                            ELSE functions))
    ELSE Outcome(<<>>, UnsupportedLanguageError)

get_module_classes(text, lang, include_private) ==
    IF lang = "python"
    THEN LET classes == get_classes(parse(None, text)).value
         IN  Outcome(ParsedEvents \o <<"get_classes">>,
                     Return(IF ~include_private THEN PublicOnly(classes)
                            ELSE classes))
    ELSE Outcome(<<>>, UnsupportedLanguageError)

\* The summary of get_file_symbols, one section per kind of symbol; a
\* section is written only when its list is not empty.
SymbolSummary(constants, functions, classes) ==
    [variables |-> SeqMap(LAMBDA c : <<c.name, c.value>>, constants),
     functions |-> SeqMap(LAMBDA f : <<f.name, Concat(f.parameters)>>, functions),
     classes |-> SeqMap(LAMBDA c : c.name, classes)]

\* A faulty variant of get_file_symbols: the file is parsed before the tag is looked at.
get_file_symbols_ParseFirst(text, lang) ==
    LET tree_ == parse(None, text)
    IN  IF lang = "python"
        THEN Outcome(ParsedEvents
                     \o <<"get_constants", "get_functions", "get_classes">>,
                     Return(SymbolSummary(get_constants(tree_).value,
                                          get_functions(tree_).value,
                                          get_classes(tree_).value)))
        ELSE Outcome(ParsedEvents, UnsupportedLanguageError)

get_file_symbols(text, lang) ==
    IF lang = "python"
    THEN LET tree_ == parse(None, text)
         IN  Outcome(ParsedEvents
                     \o <<"get_constants", "get_functions", "get_classes">>,
                     Return(SymbolSummary(get_constants(tree_).value,
                                          get_functions(tree_).value,
                                          get_classes(tree_).value)))
    ELSE Outcome(<<>>, UnsupportedLanguageError)

\* get_specific_variable, get_specific_function, get_specific_class on the
\* list the include_private=True call returned: the first record of that
\* name, None when there is none.
get_specific(symbols, name) ==
    LET found == {i \in DOMAIN symbols : symbols[i].name = name}
    IN  IF found = {} THEN None
        ELSE Some(symbols[CHOOSE i \in found : \A j \in found : i <= j])

\* The loops of analyze_file_node over the public symbols of one kind: every
\* name is looked up again, what is found is appended.
Selected(all, everything) ==
    LET specific == [i \in DOMAIN all |-> get_specific(everything, all[i].name)]
        kept == SelectSeq(specific, LAMBDA r : r # None)
    IN  [i \in DOMAIN kept |-> kept[i][1]]

\* analyze_file_node on a .py file: file_variables, file_functions and
\* file_classes of the file.
analyze_file(text) ==
    Outcome(ParsedEvents,
        Return([variables |->
                    Selected(get_module_variables(text, "python", FALSE).result.value,
                             get_module_variables(text, "python", TRUE).result.value),
                functions |->
                    Selected(get_module_functions(text, "python", FALSE).result.value,
                             get_module_functions(text, "python", TRUE).result.value),
                classes |->
                    Selected(get_module_classes(text, "python", FALSE).result.value,
                             get_module_classes(text, "python", TRUE).result.value)]))

\* ------------------------------------------------------------- the state

VARIABLES
    kind,       \* the class of the parser instance
    tree,       \* the tree field of the instance: None or Some(tree)
    code,       \* the text of the last parse call on it: None or Some(text)
    replaced,   \* the last parse call replaced the tree of another text
    call,       \* the last call on the instance: its name and its outcome
    tool,       \* the last call of an entry point of tools.py
    file,       \* the text of the file the entry points are called on
    pool,       \* two further PythonParser instances, each with its fields
    threads,    \* the extraction calls in progress on the instance, per thread
    agent       \* the AgentContext of a run of the graph and the node to run next

vars == <<kind, tree, code, replaced, call, tool, file, pool, threads, agent>>

NoCall == [op |-> "none", result |-> Return(None)]
NoTool == [fn |-> "none", lang |-> "none", include_private |-> FALSE,
           events |-> <<>>, result |-> Return(None)]

Extractions ==
    {"get_tree", "get_module_docstring", "get_constants", "get_functions",
     "get_classes"}

\* The names of the instances of the pool.
Instances == {"a", "b"}

\* PythonParser(): the generated __init__ gives every instance a tree
\* attribute of its own, set to the default None.
NewInstance ==
    [tree |-> None, code |-> None, replaced |-> FALSE, call |-> NoCall]
NoPool == [i \in Instances |-> NewInstance]

\* Most threads calling extractions on one instance.
MaxThreads == 2
Threads == 1..MaxThreads

\* A thread that is in no call.
IdleThread == [pc |-> "idle", op |-> "none", result |-> Return(None)]
NoThreads == [t \in Threads |-> IdleThread]

\* No run of the graph.
NoAgent == [node |-> "none"]

\* PythonParser() or TypescriptParser(): the dataclass default, tree = None.
Init ==
    /\ kind \in {"PythonParser", "TypescriptParser"}
    /\ tree = None
    /\ code = None
    /\ replaced = FALSE
    /\ call = NoCall
    /\ tool = NoTool
    /\ file = <<>>
    /\ pool = NoPool
    /\ threads = NoThreads
    /\ agent = NoAgent

Parse(c) ==
    /\ kind = "PythonParser"
    /\ tree' = parse(tree, c)
    /\ code' = IF Encodable(c) THEN Some(c) ELSE code
    /\ replaced' = IF Encodable(c) THEN code # None /\ code # Some(c)
                   ELSE replaced
    /\ call' = [op |-> "parse", result |-> parse_result(c)]
    /\ UNCHANGED <<kind, tool, file, pool, threads, agent>>

GetTree ==
    /\ kind = "PythonParser"
    /\ call' = [op |-> "get_tree", result |-> get_tree(tree)]
    /\ UNCHANGED <<kind, tree, code, replaced, tool, file, pool, threads, agent>>

GetModuleDocstring ==
    /\ kind = "PythonParser"
    /\ call' = [op |-> "get_module_docstring",
                result |-> get_module_docstring(tree)]
    /\ UNCHANGED <<kind, tree, code, replaced, tool, file, pool, threads, agent>>

GetConstants ==
    /\ kind = "PythonParser"
    /\ call' = [op |-> "get_constants", result |-> get_constants(tree)]
    /\ UNCHANGED <<kind, tree, code, replaced, tool, file, pool, threads, agent>>

GetFunctions ==
    /\ kind = "PythonParser"
    /\ call' = [op |-> "get_functions", result |-> get_functions(tree)]
    /\ UNCHANGED <<kind, tree, code, replaced, tool, file, pool, threads, agent>>

GetClasses ==
    /\ kind = "PythonParser"
    /\ call' = [op |-> "get_classes", result |-> get_classes(tree)]
    /\ UNCHANGED <<kind, tree, code, replaced, tool, file, pool, threads, agent>>

\* parse_ts and parse_tsx of TypescriptParser.
TsParseCall(grammar, c) ==
    /\ kind = "TypescriptParser"
    /\ tree' = Some(TsParse(grammar, c))
    /\ code' = Some(c)
    /\ replaced' = (code # None /\ code # Some(c))
    /\ call' = [op |-> IF grammar = "tsx" THEN "parse_tsx" ELSE "parse_ts",
                result |-> Return(None)]
    /\ UNCHANGED <<kind, tool, file, pool, threads, agent>>

ParseTs(c) == TsParseCall("typescript", c)

ParseTsx(c) == TsParseCall("tsx", c)

TsGetConstants ==
    /\ kind = "TypescriptParser"
    /\ \E r \in ts_get_constants(tree) :
           call' = [op |-> "get_constants", result |-> r]
    /\ UNCHANGED <<kind, tree, code, replaced, tool, file, pool, threads, agent>>

Next ==
    \/ \E c \in Sources : Parse(c)
    \/ GetTree
    \/ GetModuleDocstring
    \/ GetConstants
    \/ GetFunctions
    \/ GetClasses
    \/ \E c \in TsSources : ParseTs(c)
    \/ \E c \in TsSources : ParseTsx(c)
    \/ TsGetConstants

Spec == Init /\ [][Next]_vars

\* ---------------------------------------------- the entry points of tools.py

ToolCall(fn, lang, include_private, outcome) ==
    /\ tool' = [fn |-> fn, lang |-> lang, include_private |-> include_private,
                events |-> outcome.events, result |-> outcome.result]
    /\ UNCHANGED <<kind, tree, code, replaced, call, file, pool, threads, agent>>

ToolGetModuleDocstring(lang) ==
    ToolCall("get_module_docstring", lang, FALSE,
             tools_get_module_docstring(file, lang))

ToolGetModuleVariables(lang, p) ==
    ToolCall("get_module_variables", lang, p, get_module_variables(file, lang, p))

ToolGetModuleFunctions(lang, p) ==
    ToolCall("get_module_functions", lang, p, get_module_functions(file, lang, p))

ToolGetModuleClasses(lang, p) ==
    ToolCall("get_module_classes", lang, p, get_module_classes(file, lang, p))

ToolGetFileSymbols(lang) ==
    ToolCall("get_file_symbols", lang, FALSE, get_file_symbols(file, lang))

ToolAnalyzeFile == ToolCall("analyze_file", "python", FALSE, analyze_file(file))

\* The file on disk is any of the texts that file.read() decodes; no call
\* writes it.
InitTools ==
    /\ kind = "PythonParser"
    /\ tree = None
    /\ code = None
    /\ replaced = FALSE
    /\ call = NoCall
    /\ tool = NoTool
    /\ file \in {c \in Sources : Encodable(c)}
    /\ pool = NoPool
    /\ threads = NoThreads
    /\ agent = NoAgent

NextTools ==
    \/ \E lang \in Langs : ToolGetModuleDocstring(lang)
    \/ \E lang \in Langs, p \in BOOLEAN : ToolGetModuleVariables(lang, p)
    \/ \E lang \in Langs, p \in BOOLEAN : ToolGetModuleFunctions(lang, p)
    \/ \E lang \in Langs, p \in BOOLEAN : ToolGetModuleClasses(lang, p)
    \/ \E lang \in Langs : ToolGetFileSymbols(lang)
    \/ ToolAnalyzeFile

SpecTools == InitTools /\ [][NextTools]_vars

\* ------------------------------------------------ several parser instances

\* Most statements of a text handed to an instance of the pool.
MaxPairStmts == 1

PairSources ==
    SeqsUpTo({TypedAssign,
              FunctionDefinition(<<"add">>, ParamsXY, None,
                                 <<StringStmt(DocA), PassStmt>>),
              ClassDefinition(<<"A">>, None, <<FieldAssign, Method>>)},
             0, MaxPairStmts)

\* A faulty variant of SetTree: the tree is an attribute all instances share.
SetTree_Shared(instances, i, t) ==
    [j \in DOMAIN instances |-> [instances[j] EXCEPT !.tree = t]]

\* self.tree = t, self being instance i: an attribute of that instance.
SetTree(instances, i, t) == [instances EXCEPT ![i].tree = t]

\* parse called on instance i.
PairParse(i, c) ==
    /\ pool' = [SetTree(pool, i, parse(pool[i].tree, c)) EXCEPT
                   ![i].code = Some(c),
                   ![i].replaced = (pool[i].code # None /\ pool[i].code # Some(c)),
                   ![i].call = [op |-> "parse", result |-> Return(None)]]
    /\ UNCHANGED <<kind, tree, code, replaced, call, tool, file, threads, agent>>

\* An extraction called on instance i.
PairExtract(i, op) ==
    /\ pool' = [pool EXCEPT
                   ![i].call = [op |-> op, result |-> Answer(op, pool[i].tree)]]
    /\ UNCHANGED <<kind, tree, code, replaced, call, tool, file, threads, agent>>

InitPair ==
    /\ kind = "PythonParser"
    /\ tree = None
    /\ code = None
    /\ replaced = FALSE
    /\ call = NoCall
    /\ tool = NoTool
    /\ file = <<>>
    /\ pool = NoPool
    /\ threads = NoThreads
    /\ agent = NoAgent

NextPair ==
    \/ \E i \in Instances, c \in PairSources : PairParse(i, c)
    \/ \E i \in Instances, op \in Extractions : PairExtract(i, op)

SpecPair == InitPair /\ [][NextPair]_vars

\* ------------------------------------------------------ agent.py: the graph

\* Most files find_project_sources returns.
MaxFiles == 3

\* A source file, by what the steps of the graph find in it: its extension is
\* .py or not, it holds public symbols or not, the model calls it relevant to
\* its topic or not, the text the model writes for it is empty or not.
SourceFile(supported, public, relevant, text) ==
    [supported |-> supported, public |-> public, relevant |-> relevant,
     text |-> text]

SourceFiles ==
    {SourceFile(FALSE, FALSE, FALSE, FALSE),
     SourceFile(TRUE, FALSE, FALSE, FALSE),
     SourceFile(TRUE, FALSE, TRUE, FALSE),
     SourceFile(TRUE, TRUE, FALSE, FALSE),
     SourceFile(TRUE, TRUE, FALSE, TRUE),
     SourceFile(TRUE, TRUE, TRUE, FALSE),
     SourceFile(TRUE, TRUE, TRUE, TRUE)}

\* d[k] = v and d.get(k, default) of a dict.
Put(d, k, v) == [x \in DOMAIN d \cup {k} |-> IF x = k THEN v ELSE d[x]]
Get(d, k, default) == IF k \in DOMAIN d THEN d[k] ELSE default
EmptyDict == [x \in {} |-> FALSE]

\* initial_state of generate_documentation and the entry edge of the graph.
\* project is the list find_project_sources will return; a path is named by
\* its position in that list.  analyzed counts, per path, the calls of
\* analyze_file_node that took it as current_file.
InitialState(project, topics) ==
    [node |-> "extract_metadata", project |-> project, topics |-> topics,
     file_paths |-> <<>>, current_file_index |-> 0,
     file_symbols |-> EmptyDict, file_public |-> EmptyDict,
     file_topics |-> EmptyDict, file_relevance |-> EmptyDict,
     documentation |-> EmptyDict, saved |-> {}, package_metadata |-> FALSE,
     analyzed |-> [i \in 1..Len(project) |-> 0]]

\* state["current_file_index"] >= len(state["file_paths"])
AllDone(state) == state.current_file_index >= Len(state.file_paths)

\* file_paths[current_index], as a position of the list.
CurrentFile(state) == state.current_file_index + 1

\* extract_metadata_node: the metadata is found or not; edge to find_sources.
ExtractMetadata ==
    /\ agent.node = "extract_metadata"
    /\ \E found \in BOOLEAN :
           agent' = [agent EXCEPT !.package_metadata = found,
                                  !.node = "find_sources"]
    /\ UNCHANGED <<kind, tree, code, replaced, call, tool, file, pool, threads>>

\* find_sources_node; edge to analyze_file.
FindSources ==
    /\ agent.node = "find_sources"
    /\ agent' = [agent EXCEPT !.file_paths = agent.project,
                              !.current_file_index = 0,
                              !.file_symbols = EmptyDict,
                              !.documentation = EmptyDict,
                              !.node = "analyze_file"]
    /\ UNCHANGED <<kind, tree, code, replaced, call, tool, file, pool, threads>>

\* analyze_file_node; edge to categorize_file.
AnalyzeFile ==
    /\ agent.node = "analyze_file"
    /\ LET current == CurrentFile(agent)
       IN  agent' =
           IF AllDone(agent) THEN [agent EXCEPT !.node = "categorize_file"]
           ELSE IF ~agent.file_paths[current].supported
           THEN [agent EXCEPT !.analyzed[current] = @ + 1,
                              !.current_file_index = @ + 1,
                              !.node = "categorize_file"]
           ELSE [agent EXCEPT
                    !.analyzed[current] = @ + 1,
                    !.file_symbols = Put(@, current, "File:"),
                    !.file_public =
                        Put(@, current, agent.file_paths[current].public),
                    !.node = "categorize_file"]
    /\ UNCHANGED <<kind, tree, code, replaced, call, tool, file, pool, threads>>

\* categorize_file_node; edge to generate_docs.  answer is the text after
\* "Topic:" in the response of the model, "general" when no line has it.
CategorizeFile ==
    /\ agent.node = "categorize_file"
    /\ \E answer \in {"api", "cli", "docs", "general"} :
       LET current == CurrentFile(agent)
       IN  agent' =
           IF AllDone(agent) THEN [agent EXCEPT !.node = "generate_docs"]
           ELSE IF Get(agent.file_symbols, current, "") = ""
           THEN [agent EXCEPT !.file_topics = Put(@, current, "general"),
                              !.file_relevance = Put(@, current, FALSE),
                              !.node = "generate_docs"]
           ELSE IF agent.topics # <<>>
           THEN [agent EXCEPT
                    !.file_topics =
                        Put(@, current,
                            IF answer \in Range(agent.topics)
                            THEN answer ELSE agent.topics[1]),
                    !.file_relevance =
                        Put(@, current, agent.file_paths[current].relevant),
                    !.node = "generate_docs"]
           ELSE [agent EXCEPT !.file_topics = Put(@, current, "general"),
                              !.file_relevance = Put(@, current, TRUE),
                              !.node = "generate_docs"]
    /\ UNCHANGED <<kind, tree, code, replaced, call, tool, file, pool, threads>>

\* A faulty variant of generate_documentation_node: the relevance of the
\* file is not looked at.
GenerateDocs_AnyRelevance ==
    /\ agent.node = "generate_docs"
    /\ LET current == CurrentFile(agent)
       IN  agent' =
           IF AllDone(agent) THEN [agent EXCEPT !.node = "save_docs"]
           ELSE IF \/ Get(agent.file_symbols, current, "") = ""
                   \/ ~Get(agent.file_public, current, FALSE)
           THEN [agent EXCEPT !.current_file_index = @ + 1,
                              !.node = "save_docs"]
           ELSE [agent EXCEPT
                    !.documentation =
                        Put(@, current,
                            IF agent.file_paths[current].text
                            THEN "text" ELSE ""),
                    !.node = "save_docs"]
    /\ UNCHANGED <<kind, tree, code, replaced, call, tool, file, pool, threads>>

\* generate_documentation_node; edge to save_docs.
GenerateDocs ==
    /\ agent.node = "generate_docs"
    /\ LET current == CurrentFile(agent)
       IN  agent' =
           IF AllDone(agent) THEN [agent EXCEPT !.node = "save_docs"]
           ELSE IF ~Get(agent.file_relevance, current, TRUE)
           THEN [agent EXCEPT !.current_file_index = @ + 1,
                              !.node = "save_docs"]
           ELSE IF \/ Get(agent.file_symbols, current, "") = ""
                   \/ ~Get(agent.file_public, current, FALSE)
           THEN [agent EXCEPT !.current_file_index = @ + 1,
                              !.node = "save_docs"]
           ELSE [agent EXCEPT
                    !.documentation =
                        Put(@, current,
                            IF agent.file_paths[current].text
                            THEN "text" ELSE ""),
                    !.node = "save_docs"]
    /\ UNCHANGED <<kind, tree, code, replaced, call, tool, file, pool, threads>>

\* A faulty variant of should_continue: the loop is never left.
should_continue_Always(state) == "continue"

\* should_continue, on the state save_docs leaves.
should_continue(state) == IF AllDone(state) THEN "end" ELSE "continue"

\* A faulty variant of save_documentation_node: the index is not compared
\* with the length of the list before it is advanced.
SaveDocs_Unguarded ==
    /\ agent.node = "save_docs"
    /\ LET current == CurrentFile(agent)
           after ==
               IF Get(agent.documentation, current, "") = ""
               THEN [agent EXCEPT !.current_file_index = @ + 1]
               ELSE [agent EXCEPT !.saved = @ \cup {current},
                                  !.current_file_index = @ + 1]
       IN  agent' = [after EXCEPT
                        !.node = IF should_continue(after) = "end"
                                 THEN "END" ELSE "analyze_file"]
    /\ UNCHANGED <<kind, tree, code, replaced, call, tool, file, pool, threads>>

\* save_documentation_node, then the conditional edge.
SaveDocs ==
    /\ agent.node = "save_docs"
    /\ LET current == CurrentFile(agent)
           after ==
               IF AllDone(agent) THEN agent
               ELSE IF Get(agent.documentation, current, "") = ""
               THEN [agent EXCEPT !.current_file_index = @ + 1]
               ELSE [agent EXCEPT !.saved = @ \cup {current},
                                  !.current_file_index = @ + 1]
       IN  agent' = [after EXCEPT
                        !.node = IF should_continue(after) = "end"
                                 THEN "END" ELSE "analyze_file"]
    /\ UNCHANGED <<kind, tree, code, replaced, call, tool, file, pool, threads>>

\* generate_documentation(project_path, codebase_extensions, output_dir,
\* topics) on a project holding any list of files.
InitAgent ==
    /\ kind = "PythonParser"
    /\ tree = None
    /\ code = None
    /\ replaced = FALSE
    /\ call = NoCall
    /\ tool = NoTool
    /\ file = <<>>
    /\ pool = NoPool
    /\ threads = NoThreads
    /\ \E project \in SeqsUpTo(SourceFiles, 0, MaxFiles),
          topics \in {<<>>, <<"api", "cli">>} :
           agent = InitialState(project, topics)

NextAgent ==
    \/ ExtractMetadata
    \/ FindSources
    \/ AnalyzeFile
    \/ CategorizeFile
    \/ GenerateDocs
    \/ SaveDocs

SpecAgent == InitAgent /\ [][NextAgent]_vars

\* agent_graph.invoke runs the node an edge leads to as long as there is one.
SpecAgentFair == SpecAgent /\ WF_vars(NextAgent)

\* ------------------------------------- extractions called from several threads

\* A faulty variant of TreeAfterExtraction: get_classes gives its tree away.
TreeAfterExtraction_Consumed(op, held) ==
    IF op = "get_classes" THEN None ELSE held

\* self.tree after an extraction method has run: the extraction methods hold
\* no assignment to self.tree and call no method that changes the tree.
TreeAfterExtraction(op, held) == held

\* A thread enters an extraction: `if self.tree is None: raise ValueError`.
ThreadCall(t, op) ==
    /\ threads[t].pc = "idle"
    /\ threads' = [threads EXCEPT ![t] =
                      IF tree = None
                      THEN [pc |-> "returned", op |-> op, result |-> Answer(op, tree)]
                      ELSE [pc |-> "checked", op |-> op, result |-> Return(None)]]
    /\ UNCHANGED <<kind, tree, code, replaced, call, tool, file, pool, agent>>

\* The thread runs the query on self.tree.root_node and builds its list.
ThreadQuery(t) ==
    /\ threads[t].pc = "checked"
    /\ threads' = [threads EXCEPT ![t].pc = "returned",
                                  ![t].result = Answer(threads[t].op, tree)]
    /\ tree' = TreeAfterExtraction(threads[t].op, tree)
    /\ UNCHANGED <<kind, code, replaced, call, tool, file, pool, agent>>

\* The caller takes the result.
ThreadReturn(t) ==
    /\ threads[t].pc = "returned"
    /\ threads' = [threads EXCEPT ![t] = IdleThread]
    /\ UNCHANGED <<kind, tree, code, replaced, call, tool, file, pool, agent>>

\* One instance that has parsed a text, shared by the threads.
InitThreads ==
    /\ kind = "PythonParser"
    /\ \E c \in PairSources : tree = parse(None, c) /\ code = Some(c)
    /\ replaced = FALSE
    /\ call = [op |-> "parse", result |-> Return(None)]
    /\ tool = NoTool
    /\ file = <<>>
    /\ pool = NoPool
    /\ threads = NoThreads
    /\ agent = NoAgent

NextThreads ==
    \/ \E t \in Threads, op \in Extractions : ThreadCall(t, op)
    \/ \E t \in Threads : ThreadQuery(t)
    \/ \E t \in Threads : ThreadReturn(t)

SpecThreads == InitThreads /\ [][NextThreads]_vars

\* ------------------------------------------------------------ the claims

\* What the claims say of a text, written without the queries.

\* A definition with its decorators: the statement itself, or the
\* definition a decorated_definition wraps.
Undecorated(stmt) ==
    IF stmt.type = "decorated_definition"
    THEN [def |-> stmt.definition, decorators |-> stmt.decorators]
    ELSE [def |-> stmt, decorators |-> <<>>]

DefsOfType(stmts, type) ==
    SelectSeq(SeqMap(Undecorated, stmts), LAMBDA d : d.def.type = type)

\* The function definitions that are statements of the module, in order.
ModuleFunctionDefs(text) == DefsOfType(text, "function_definition")

\* The class and function definitions anywhere in the text, in order.
AllDefs(text, type) ==
    DefsOfType(SeqMap(LAMBDA e : e.node, Preorder(text, <<>>)), type)

FirstIsBareString(body) ==
    body.children # <<>> /\ IsStringStmt(body.children[1])

IsNotParsed(result) ==
    /\ result.tag = "ValueError"
    /\ result.value \in {<<"No file has been parsed yet.">>,
                         <<"No syntax tree available. Please parse code first.">>}

IsExtraction == call.op \in Extractions

AnswersWith(op) ==
    kind = "PythonParser" /\ code # None /\ call.op = op /\ call.result.tag = "ok"

FreshAnswer(op, text) == Answer(op, parse(None, text))

C3_UnsupportedLanguageFirst ==
    tool.fn # "none" /\ tool.lang # "python" =>
        /\ tool.result.tag = "ValueError"
        /\ tool.result.value = <<"Unsupported language">>
        /\ tool.events = <<>>

C3_Witness ==
    /\ tool.fn = "get_file_symbols"
    /\ tool.lang = "typescript"
    /\ tool.result.tag = "ValueError"

\* The definitions of a text that carry the name of a record.
Named(defs, name) == {d \in Range(defs) : d.def.name.text = name}

\* C4: the docstring of a function, class or method record is present
\* exactly when the first statement of the definition's body is a bare
\* string expression; a later string statement never becomes the docstring.
C4_DocstringOnlyFirstStatement ==
    /\ AnswersWith("get_functions") =>
           \A r \in Range(call.result.value) :
               \A d \in Named(ModuleFunctionDefs(code[1]), r.name) :
                   (r.docstring # None) <=> FirstIsBareString(d.def.body)
    /\ AnswersWith("get_classes") =>
           \A c \in Range(call.result.value) :
               /\ \A d \in Named(AllDefs(code[1], "class_definition"), c.name) :
                      (c.docstring # None) <=> FirstIsBareString(d.def.body)
               /\ \A m \in Range(c.methods) :
                      \A d \in Named(AllDefs(code[1], "function_definition"),
                                     m.name) :
                          (m.docstring # None) <=> FirstIsBareString(d.def.body)

\* The assignments that are statements of a class body, as field records.
DirectFields(body) ==
    SeqMap(LAMBDA stmt : [name |-> stmt.expr.left.text,
                          value |-> stmt.expr.right[1].text,
                          type |-> stmt.expr.annotation],
           SelectSeq(body.children, IsAssignStmt))

\* C5: the fields of a class record are the assignments that are direct
\* statements of the class body, in source order, wherever they stand among
\* the statements of the body.
C5_FieldsAreDirectAssignments ==
    AnswersWith("get_classes") =>
        \A c \in Range(call.result.value) :
            \A d \in Named(AllDefs(code[1], "class_definition"), c.name) :
                c.fields = DirectFields(d.def.body)

\* C6: the methods of a class record are function definitions that are
\* direct statements of the class body; a function nested in a method and a
\* method of a nested class are not among them.
C6_MethodsAreDirectDefinitions ==
    AnswersWith("get_classes") =>
        \A c \in Range(call.result.value) :
            \A d \in Named(AllDefs(code[1], "class_definition"), c.name) :
                \A m \in Range(c.methods) :
                    Named(DefsOfType(d.def.body.children, "function_definition"),
                          m.name) # {}

\* C7: get_functions lists the functions of the module in the order of their
\* definitions, plain and decorated ones as one sequence: the records map
\* onto the definitions by a map that never steps back.
C7_FunctionsInSourceOrder ==
    AnswersWith("get_functions") =>
        LET result == call.result.value
            defs == ModuleFunctionDefs(code[1])
        IN  \E pos \in [1..Len(result) -> 1..Len(defs)] :
                /\ \A i \in 1..Len(result) :
                       result[i].name = defs[pos[i]].def.name.text
                /\ \A i, j \in 1..Len(result) : i < j => pos[i] <= pos[j]
                /\ \A k \in 1..Len(defs) : \E i \in 1..Len(result) : pos[i] = k

\* A decorated function is listed before a plain one that follows it.
C7_Witness ==
    /\ AnswersWith("get_functions")
    /\ Len(call.result.value) = 2
    /\ call.result.value[1].decorators # None
    /\ call.result.value[2].decorators = None
    /\ call.result.value[1].name # call.result.value[2].name

\* C8: the decorators of a function record are the texts of the decorators
\* above the definition, top to bottom, whatever their form; without a
\* decorator the list is absent or empty.
C8_EveryDecoratorListed ==
    AnswersWith("get_functions") =>
        \A r \in Range(call.result.value) :
            \A d \in Named(ModuleFunctionDefs(code[1]), r.name) :
                IF d.decorators = <<>>
                THEN r.decorators \in {None, Some(<<>>)}
                ELSE r.decorators
                     = Some(SeqMap(LAMBDA x : x.expr.text, d.decorators))

\* The contents of the string statements of a block.
StringContents(stmts) ==
    {stmt.expr.content : stmt \in Range(SelectSeq(stmts, IsStringStmt))}

\* C9: a reported docstring is the literal without its delimiters, every
\* character between them kept.
C9_DocstringIsLiteralContent ==
    /\ AnswersWith("get_module_docstring") =>
           \/ call.result.value = None
           \/ call.result.value[1] \in StringContents(code[1])
    /\ AnswersWith("get_functions") =>
           \A r \in Range(call.result.value) :
               \A d \in Named(ModuleFunctionDefs(code[1]), r.name) :
                   \/ r.docstring = None
                   \/ r.docstring[1] \in StringContents(d.def.body.children)

FilteredTools ==
    {"get_module_variables", "get_module_functions", "get_module_classes"}

\* What the parser extracts from the file for an entry point.
Extracted(fn, text) ==
    CASE fn = "get_module_variables" -> FreshAnswer("get_constants", text).value
      [] fn = "get_module_functions" -> FreshAnswer("get_functions", text).value
      [] fn = "get_module_classes" -> FreshAnswer("get_classes", text).value

\* C10: with include_private the entry point returns all that the parser
\* extracts; without it, the records whose name does not start with an
\* underscore, in the same order.
C10_VisibilityFilter ==
    tool.fn \in FilteredTools /\ tool.lang = "python" =>
        /\ tool.result.tag = "ok"
        /\ LET all == Extracted(tool.fn, file)
           IN  IF tool.include_private
               THEN tool.result.value = all
               ELSE tool.result.value
                    = SelectSeq(all, LAMBDA r : r.name = <<>> \/ r.name[1] # "_")

\* A private and a public variable: one is removed, one is kept.
C10_Witness ==
    /\ tool.fn = "get_module_variables"
    /\ tool.lang = "python"
    /\ ~tool.include_private
    /\ tool.result.tag = "ok"
    /\ Len(tool.result.value) = 1
    /\ Len(Extracted(tool.fn, file)) = 2

\* The statements of a block that assign to a plain name.
NameAssignments(stmts) ==
    SelectSeq(stmts, LAMBDA stmt : /\ stmt.type = "expression_statement"
                                   /\ stmt.expr.type = "assignment"
                                   /\ stmt.expr.left.type = "identifier"
                                   /\ stmt.expr.right # None)

\* C11: get_constants returns one record for every assignment of the module
\* with a name on the left and a right-hand side: the name, the annotation
\* when one is written (absent otherwise) and the text of the right-hand
\* side, in source order.
C11_ConstantCapture ==
    AnswersWith("get_constants") =>
        call.result.value = DirectFields(Block(NameAssignments(code[1])))

\* X: int = 5 is reported with its annotation and the text of its value.
C11_Witness ==
    /\ AnswersWith("get_constants")
    /\ \E i \in 1..Len(call.result.value) :
           call.result.value[i]
           = [name |-> <<"X">>, type |-> Some(<<"int">>), value |-> <<"5">>]

\* The assignments to a plain name that stand in a block below the module.
NestedAssignments(text) ==
    SelectSeq(Preorder(text, <<>>),
              LAMBDA e : e.block # <<>> /\ NameAssignments(<<e.node>>) # <<>>)

\* C12: every record of get_constants comes from an assignment that is a
\* statement of the module itself; an assignment in a block below it gives
\* no record.
C12_ConstantsAreModuleLevel ==
    AnswersWith("get_constants") =>
        /\ Len(call.result.value) = Len(NameAssignments(code[1]))
        /\ \A i \in 1..Len(call.result.value) :
               call.result.value[i].name
               = NameAssignments(code[1])[i].expr.left.text

\* A text with an assignment in a class body or an if body next to one of the
\* module.
C12_Witness ==
    /\ AnswersWith("get_constants")
    /\ NestedAssignments(code[1]) # <<>>
    /\ Len(call.result.value) = 1

\* C13: get_classes returns only the classes defined by a statement of the
\* module; a class defined in a function body or in another class body is not
\* an element of the list.
C13_ClassesAreModuleLevel ==
    AnswersWith("get_classes") =>
        \A c \in Range(call.result.value) :
            Named(DefsOfType(code[1], "class_definition"), c.name) # {}

ListExtractions == {"get_constants", "get_functions", "get_classes"}

C19_InstancesOwnTheirTree ==
    /\ [][\A i \in Instances :
              pool'[i].call.op = "parse" /\ pool'[i] # pool[i] =>
                  \A j \in Instances \ {i} :
                      /\ pool'[j] = pool[j]
                      /\ \A op \in Extractions :
                             Answer(op, pool'[j].tree) = Answer(op, pool[j].tree)]_vars
    /\ [](\A j \in Instances :
              pool[j].code = None =>
                  /\ pool[j].tree = None
                  /\ pool[j].call.op \in Extractions => IsNotParsed(pool[j].call.result))

\* Instance a has parsed a text; b, never parsed, fails with the error.
C19_Witness ==
    /\ pool["a"].code # None /\ pool["a"].tree # None
    /\ pool["b"].code = None
    /\ pool["b"].call.op = "get_functions"
    /\ IsNotParsed(pool["b"].call.result)

\* C15: when the graph reaches END every file of file_paths has been handed
\* to analyze_file exactly once.
C15_EveryFileAnalyzed ==
    agent.node = "END" =>
        \A i \in 1..Len(agent.file_paths) : agent.analyzed[i] = 1

\* The parameters as written between the parentheses: every second child of
\* the parameter list.
WrittenParameters(parameters) ==
    [k \in 1..((Len(parameters.children) - 1) \div 2) |->
        parameters.children[2 * k].text]

\* C16: the parameters of a function record are the texts of the children
\* of the parameter list in source order without "(", ")" and ","; a
\* parameter with an annotation or a default is one entry with its full text.
C16_ParametersAsWritten ==
    AnswersWith("get_functions") =>
        \A r \in Range(call.result.value) :
            \A d \in Named(ModuleFunctionDefs(code[1]), r.name) :
                r.parameters = WrittenParameters(d.def.parameters)

\* def h(x: int, y=1) is reported with the two full texts.
C16_Witness ==
    /\ AnswersWith("get_functions")
    /\ \E i \in 1..Len(call.result.value) :
           call.result.value[i].parameters = <<<<"x: int">>, <<"y=1">>>>

\* C17: parse succeeds on every text and leaves the instance parsed, and no
\* extraction after it raises.
C17_ParseAcceptsEveryText ==
    kind = "PythonParser" =>
        /\ call.op = "parse" => call.result.tag = "ok" /\ tree # None
        /\ code # None /\ IsExtraction => call.result.tag = "ok"

\* The function definitions, plain or decorated, among the statements of a
\* block.
FunctionStatements(stmts) ==
    SelectSeq(stmts, LAMBDA stmt : Undecorated(stmt).def.type = "function_definition")

\* C18: a function definition that is a statement of a class body gives the
\* method record that get_functions gives for the same definition placed at
\* module level: the same name, parameters, return_type, docstring and
\* decorators.
C18_MethodsAsFunctions ==
    AnswersWith("get_classes") =>
        \A c \in Range(call.result.value) :
            \A d \in Named(AllDefs(code[1], "class_definition"), c.name) :
                \A stmt \in Range(FunctionStatements(d.def.body.children)) :
                    Range(FreshAnswer("get_functions", <<stmt>>).value)
                    \subseteq Range(c.methods)

\* C20: no step of an extraction changes the tree of the instance, and
\* whatever the interleaving of the threads every call returns what it
\* returns when it runs alone on the parsed text.
C20_ExtractionLeavesTree ==
    /\ [][tree' = tree]_vars
    /\ [](\A t \in Threads :
              threads[t].pc = "returned" =>
                  threads[t].result = FreshAnswer(threads[t].op, code[1]))

\* One thread has returned its classes while another is between its check
\* and its query.
C20_Witness ==
    /\ threads[1].pc = "returned" /\ threads[1].op = "get_classes"
    /\ threads[1].result.tag = "ok" /\ threads[1].result.value # <<>>
    /\ threads[2].pc = "checked" /\ threads[2].op = "get_functions"

\* C21: get_module_docstring returns a docstring exactly when the first
\* statement of the module is a bare string expression; a string statement
\* further down the module is not returned.
C21_ModuleDocstringIsFirstStatement ==
    AnswersWith("get_module_docstring") =>
        (call.result.value # None <=> FirstIsBareString(Module(code[1])))

\* C22: get_classes returns one record for every class definition of the
\* text, a decorated class included.
C22_OneRecordPerClass ==
    AnswersWith("get_classes") =>
        Len(call.result.value) = Len(AllDefs(code[1], "class_definition"))

\* The nodes still to run in the pass, then four for every file left.
Rank(state) ==
    LET left == IF Len(state.file_paths) > state.current_file_index
                THEN Len(state.file_paths) - state.current_file_index ELSE 0
        togo == CASE state.node = "analyze_file" -> 4
                  [] state.node = "categorize_file" -> 3
                  [] state.node = "generate_docs" -> 2
                  [] state.node = "save_docs" -> 1
                  [] OTHER -> 0
    IN  4 * left + togo

InLoop(state) ==
    state.node \in {"analyze_file", "categorize_file", "generate_docs", "save_docs"}

C24_IndexWithinList ==
    /\ [](/\ agent.current_file_index \in 0..Len(agent.file_paths)
          /\ InLoop(agent) /\ ~AllDone(agent) =>
                 CurrentFile(agent) \in DOMAIN agent.file_paths)
    /\ [][agent.node # "find_sources" =>
              agent'.current_file_index >= agent.current_file_index]_vars

\* save_docs is entered with the index at the end of a list of files, the
\* pass having advanced it already.
C24_Witness ==
    /\ agent.node = "save_docs"
    /\ Len(agent.file_paths) >= 1
    /\ agent.current_file_index = Len(agent.file_paths)

\* C25: with topics supplied, every topic categorize_file records in
\* file_topics is one of them; without topics every recorded topic is
\* "general".
C25_TopicsFromList ==
    \A f \in DOMAIN agent.file_topics :
        IF agent.topics # <<>>
        THEN agent.file_topics[f] \in Range(agent.topics)
        ELSE agent.file_topics[f] = "general"

\* The file was handed to analyze_file_node and its symbols were recorded.
Analyzed(state, f) ==
    /\ state.analyzed[f] >= 1
    /\ Get(state.file_symbols, f, "") # ""

\* The file was categorized as relevant.
Relevant(state, f) ==
    /\ f \in DOMAIN state.file_topics
    /\ Get(state.file_relevance, f, FALSE)

\* A documentation that is not empty was generated for the file.
Documented(state, f) == Get(state.documentation, f, "") # ""

\* C26: a file is saved only after it was analyzed, then categorized as
\* relevant, found to have a public symbol, and given a documentation that is
\* not empty, in this order; a file that is not relevant or has no public
\* symbol is never saved.
C26_SavedAfterAllSteps ==
    /\ [](\A f \in agent.saved :
              /\ Analyzed(agent, f) /\ Relevant(agent, f)
              /\ Get(agent.file_public, f, FALSE) /\ Documented(agent, f)
              /\ agent.project[f].supported /\ agent.project[f].public
              /\ agent.project[f].text
              /\ agent.topics # <<>> => agent.project[f].relevant)
    /\ [][\A f \in DOMAIN agent.project :
              /\ f \in agent'.saved \ agent.saved =>
                     agent.node = "save_docs" /\ Documented(agent, f)
              /\ Documented(agent', f) /\ ~Documented(agent, f) =>
                     /\ agent.node = "generate_docs"
                     /\ Relevant(agent, f)
                     /\ Get(agent.file_public, f, FALSE)
              /\ Relevant(agent', f) /\ ~Relevant(agent, f) =>
                     agent.node = "categorize_file" /\ Analyzed(agent, f)]_vars

\* A run ended with a file saved and another one, not relevant, left out.
C26_Witness ==
    /\ agent.node = "END"
    /\ agent.saved # {}
    /\ \E f \in DOMAIN agent.file_relevance :
           ~agent.file_relevance[f] /\ Analyzed(agent, f) /\ f \notin agent.saved

\* C27: the lists analyze_file records for a file are the lists
\* get_module_variables, get_module_functions and get_module_classes return
\* with include_private=False, record by record, and hold no name that
\* starts with an underscore.
C27_AnalyzedListsArePublicLists ==
    tool.fn = "analyze_file" =>
        /\ tool.result.value.variables =
               get_module_variables(file, "python", FALSE).result.value
        /\ tool.result.value.functions =
               get_module_functions(file, "python", FALSE).result.value
        /\ tool.result.value.classes =
               get_module_classes(file, "python", FALSE).result.value
        /\ \A l \in {tool.result.value.variables, tool.result.value.functions,
                     tool.result.value.classes} :
               \A i \in DOMAIN l : ~StartsWithUnderscore(l[i].name)

====
